---- MODULE Spec2Model ----
(***************************************************************************)
(* Model of the asynchronous promise bridge of quickjs_es_runtime:         *)
(* runtimefacade_utils::promises::new_resolving_promise, the thread-local  *)
(* RESOLVING_PROMISES map, the helper-thread task that runs the producer   *)
(* and the event-loop task that maps the result and settles the promise.   *)
(***************************************************************************)
EXTENDS Integers, Sequences, FiniteSets, TLC

\* number of new_resolving_promise calls a behaviour may make
MaxOps == 2

Ops == 1..MaxOps

\* ids the AutoIdMap may hand out; it never holds more than MaxOps entries here
Ids == 0..(MaxOps - 1)

\* ids of the realms of the runtime (QuickJsRealmAdapter.id)
Contexts == {"__main__", "ctx2"}

\* the two kinds of thread of the runtime
EngineThread == "engine"
WorkerThread == "worker"

---------------------------------------------------------------------------
\* Result<R, E>
Ok(v) == [ok |-> v]
Err(e) == [err |-> e]
IsOk(r) == DOMAIN r = {"ok"}

\* what a producer may return: Result<R, String>
ProducerResults == {Ok(135), Err("boom")}

\* JsError { name, message, stack }
JsError(name, message, stack) == [name |-> name, message |-> message, stack |-> stack]

\* primitives::from_i32
from_i32(i) == [type |-> "number", num |-> i]

\* what a mapper may return for the produced value r: Result<JSValueRef, JsError>
MapperResults(r) ==
    { Ok(from_i32(r)),
      Err(JsError("TypeError", "bad", "")),
      Err(JsError("RangeError", "oops", "at mapper")) }

\* errors::new_error(context, name, message, stack): the native Error object
new_error(name, message, stack) ==
    [type |-> "Error", name |-> name, message |-> message, stack |-> stack]

\* struct PromiseRef: the promise object with its resolve and reject functions
PromiseRef(op) == [promise |-> op]

\* an empty slot of the AutoIdMap
NoEntry == [promise |-> 0]

---------------------------------------------------------------------------
VARIABLES
    contexts,           \* ids of the realms that are alive (q_js_rt.opt_context)
    RESOLVING_PROMISES, \* the engine thread's AutoIdMap<PromiseRef>: id -> entry
    enginePc,           \* "idle", "dispatch", "return" or "panicked"
    frame,              \* locals of the running new_resolving_promise call
    started,            \* number of new_resolving_promise calls made so far
    helperTask,         \* per call: the helper task's position and captured values
    eventLoop,          \* the runtime's event loop: queue of posted continuations
    promise,            \* per call: the engine's promise, its state and value
    obs                 \* per call: what was invoked, how often and on which thread

\* The state of the parts that are checked on their own: the AutoIdMap under
\* arbitrary calls, and the JSValueRef handles of one promise object. The
\* bridge leaves it alone.
VARIABLES
    regInserted,        \* number of insert calls made on the map so far
    regLive,            \* the <<id, element>> pairs insert returned an id for and
                        \* that no remove has returned since
    regLast,            \* the last call made on the map and what it returned
    hCount,             \* the promise object's native reference count
    hReleased,          \* how many times the promise object was released
    hPromiseRef,        \* 1 while the PromiseRef holds its promise_obj_ref, else 0
    hReturned,          \* live handles that get_promise_obj_ref returned
    hLive,              \* per kind: the other live handles (clones, new_no_free)
    hCalls,             \* number of handles made after the PromiseRef's own
    hLast,              \* the last call made on a handle
    dTime,              \* the time value the engine keeps for the Date object
    dSet,               \* the timestamp of the last set_time call
    dGot,               \* the last get_time call: the tag the engine used, the
                        \* result, and the result of the get_time call before it
    bBorrowed,          \* the RefCell of RESOLVING_PROMISES is mutably borrowed
    bPc,                \* position of the running continuation: "idle" (none
                        \* runs), "removed" (entry taken out), "mapped"
    bCur,               \* the id and the element the running continuation removed
    bNested,            \* the <<id, element>> the mapper's own call inserted
    bInserted,          \* number of inserts made so far
    stale,              \* the calls made in a realm that was dropped and whose
                        \* id a new realm took since
    testThreadMap,      \* the RESOLVING_PROMISES instance of the test thread
    tObs                \* what the test thread last saw in RESOLVING_PROMISES

regVars == <<regInserted, regLive, regLast>>

handleVars == <<hCount, hReleased, hPromiseRef, hReturned, hLive, hCalls, hLast>>

dateVars == <<dTime, dSet, dGot>>

borrowVars == <<bBorrowed, bPc, bCur, bNested, bInserted>>

threadVars == <<testThreadMap, tObs>>

compVars == <<regVars, handleVars, dateVars, borrowVars, stale, threadVars>>

vars == <<contexts, RESOLVING_PROMISES, enginePc, frame, started, helperTask,
          eventLoop, promise, obs, compVars>>

NoCall == [n |-> 0, call |-> "none", id |-> -1, ret |-> {}, panicked |-> FALSE]

\* the two kinds of JSValueRef: made by new (owning) or by new_no_free (borrowed)
Kinds == {"owning", "borrowed"}

NoHandleCall == [n |-> 0, call |-> "none", kind |-> "none"]

NoTestObs == [made |-> FALSE, empty |-> TRUE, engineEmpty |-> TRUE]

NoGet == [n |-> 0, tag |-> "none", ret |-> {}, prev |-> {}]

\* the parts checked on their own, before any call
CompInit ==
    /\ regInserted = 0
    /\ regLive = {}
    /\ regLast = NoCall
    /\ hCount = 0
    /\ hReleased = 0
    /\ hPromiseRef = 0
    /\ hReturned = 0
    /\ hLive = [k \in Kinds |-> 0]
    /\ hCalls = 0
    /\ hLast = NoHandleCall
    /\ dTime = {}
    /\ dSet = {}
    /\ dGot = NoGet
    /\ bBorrowed = FALSE
    /\ bPc = "idle"
    /\ bCur = [id |-> -1, elem |-> NoEntry]
    /\ bNested = {}
    /\ bInserted = 0
    /\ stale = {}
    /\ testThreadMap = [i \in Ids |-> NoEntry]
    /\ tObs = NoTestObs

NoFrame == [op |-> 0, id |-> -1, ctx_id |-> ""]

NoTask == [pc |-> "none", id |-> -1, ctx_id |-> "", produced_result |-> {}]

NoPromise == [state |-> "absent", value |-> {}]

NoObs ==
    [ producerCalls |-> 0, mapperCalls |-> 0, resolveCalls |-> 0, rejectCalls |-> 0,
      producerThread |-> {}, postThread |-> {}, mapperThread |-> {},
      settleThread |-> {}, registryThread |-> {},
      mapperResult |-> {}, outcome |-> "none", returned |-> FALSE,
      postSeq |-> 0 ]

Init ==
    /\ contexts = Contexts
    /\ RESOLVING_PROMISES = [i \in Ids |-> NoEntry]
    /\ enginePc = "idle"
    /\ frame = NoFrame
    /\ started = 0
    /\ helperTask = [op \in Ops |-> NoTask]
    /\ eventLoop = <<>>
    /\ promise = [op \in Ops |-> NoPromise]
    /\ obs = [op \in Ops |-> NoObs]
    /\ CompInit

---------------------------------------------------------------------------
\* AutoIdMap::insert picks an id that is not in the map
\* an insert that may hand out an id that is in the map
FreeIdsAny(map) == Ids

\* the ids map.insert may return: those not in the map
FreeIds(map) == {i \in Ids : map[i] = NoEntry}

map_insert(map, id, elem) == [map EXCEPT ![id] = elem]

\* a remove that hands the element out and leaves it in the map
map_remove_keeps(map, id) == map

map_remove(map, id) == [map EXCEPT ![id] = NoEntry]

is_empty(map) == \A i \in Ids : map[i] = NoEntry

\* a lookup that still finds a realm that was dropped
opt_context_stale(ctx_id) == ctx_id \in Contexts

\* q_js_rt.opt_context(ctx_id): the realm with that id, if it is alive
opt_context(ctx_id) == ctx_id \in contexts

\* PromiseRef::resolve: call the promise's resolve function with val; the
\* engine settles a pending promise and ignores the call on a settled one
resolve_q(proms, prom_ref, val) ==
    IF proms[prom_ref.promise].state = "pending"
    THEN [proms EXCEPT ![prom_ref.promise] = [state |-> "resolved", value |-> {val}]]
    ELSE proms

\* PromiseRef::reject: call the promise's reject function with val
reject_q(proms, prom_ref, val) ==
    IF proms[prom_ref.promise].state = "pending"
    THEN [proms EXCEPT ![prom_ref.promise] = [state |-> "rejected", value |-> {val}]]
    ELSE proms

\* new_promise: JS_NewPromiseCapability fills the two resolving functions, or
\* leaves them null when it fails; the function asserts that both are
\* functions and then returns Ok(PromiseRef), so it never returns an Err.
\* created: the engine created the promise capability
new_promise(created) == IF created THEN "Ok" ELSE "panic"

---------------------------------------------------------------------------
\* The engine thread.

\* new_resolving_promise up to the dispatch: create the promise, insert it in
\* the map, fetch the runtime facade, copy the context id.
\* created: JS_NewPromiseCapability gave a promise with its two functions
\* rti: get_rti_ref gave the runtime facade
StartRegister(q_ctx) ==
    /\ enginePc = "idle"
    /\ started < MaxOps
    /\ q_ctx \in contexts
    /\ started' = started + 1
    /\ LET op == started + 1 IN
       \E created \in BOOLEAN, rti \in BOOLEAN :
          IF new_promise(created) = "panic"
          THEN \* the assertions of new_promise fail
               /\ enginePc' = "panicked"
               /\ obs' = [obs EXCEPT ![op].outcome = "start_panicked"]
               /\ UNCHANGED <<RESOLVING_PROMISES, frame, promise>>
          ELSE IF new_promise(created) = "Err"
          THEN \* new_promise_q(q_ctx)? hands the error to the caller
               /\ obs' = [obs EXCEPT ![op].outcome = "start_error"]
               /\ UNCHANGED <<RESOLVING_PROMISES, frame, promise, enginePc>>
          ELSE \E id \in FreeIds(RESOLVING_PROMISES) :
               /\ promise' = [promise EXCEPT ![op] = [state |-> "pending", value |-> {}]]
               /\ RESOLVING_PROMISES' = map_insert(RESOLVING_PROMISES, id, PromiseRef(op))
               /\ IF rti
                  THEN /\ enginePc' = "dispatch"
                       /\ frame' = [op |-> op, id |-> id, ctx_id |-> q_ctx]
                       /\ obs' = [obs EXCEPT ![op].registryThread = @ \cup {EngineThread}]
                  ELSE \* expect("invalid state")
                       /\ enginePc' = "panicked"
                       /\ frame' = NoFrame
                       /\ obs' = [obs EXCEPT ![op].registryThread = @ \cup {EngineThread},
                                             ![op].outcome = "start_panicked"]
    /\ UNCHANGED <<compVars, contexts, helperTask, eventLoop>>

\* the values the helper task's closure captures besides producer and mapper
Captured(f) == [pc |-> "queued", id |-> f.id, ctx_id |-> f.ctx_id, produced_result |-> {}]

\* QuickJsRuntimeFacade::add_helper_task(move || ...)
StartDispatch ==
    /\ enginePc = "dispatch"
    /\ helperTask' = [helperTask EXCEPT ![frame.op] = Captured(frame)]
    /\ enginePc' = "return"
    /\ UNCHANGED <<compVars, contexts, RESOLVING_PROMISES, frame, started, eventLoop, promise, obs>>

\* a call that joins its helper task before it returns
StartReturnJoins ==
    /\ enginePc = "return"
    /\ helperTask[frame.op].pc = "posted"
    /\ obs' = [obs EXCEPT ![frame.op].returned = TRUE]
    /\ enginePc' = "idle"
    /\ frame' = NoFrame
    /\ UNCHANGED <<compVars, contexts, RESOLVING_PROMISES, started, helperTask, eventLoop, promise>>

\* Ok(return_ref)
StartReturn ==
    /\ enginePc = "return"
    /\ obs' = [obs EXCEPT ![frame.op].returned = TRUE]
    /\ enginePc' = "idle"
    /\ frame' = NoFrame
    /\ UNCHANGED <<compVars, contexts, RESOLVING_PROMISES, started, helperTask, eventLoop, promise>>

\* a realm is dropped, by a task of the event loop
DisposeContext(c) ==
    /\ enginePc = "idle"
    /\ c \in contexts
    /\ contexts' = contexts \ {c}
    /\ UNCHANGED <<compVars, RESOLVING_PROMISES, enginePc, frame, started, helperTask,
                   eventLoop, promise, obs>>

---------------------------------------------------------------------------
\* The continuation: the closure given to add_rt_task_to_event_loop_void.
\* e is its captured state, thread the thread that runs it.

Panicked(thread) == IF thread = EngineThread THEN "panicked" ELSE enginePc

\* a mapper error that rejects and then falls through to the resolve
SettleCallsFallThrough(produced_result, raw_res) ==
    IF IsOk(produced_result)
    THEN IF IsOk(raw_res)
         THEN << [fn |-> "resolve", arg |-> raw_res.ok] >>
         ELSE << [fn |-> "reject",
                  arg |-> new_error(raw_res.err.name, raw_res.err.message,
                                    raw_res.err.stack)],
                 [fn |-> "resolve", arg |-> from_i32(0)] >>
    ELSE << [fn |-> "reject", arg |-> new_error("Error", produced_result.err, "")] >>

\* the mapped value handed to reject_q instead of resolve_q
SettleCallsSwapped(produced_result, raw_res) ==
    IF IsOk(produced_result)
    THEN IF IsOk(raw_res)
         THEN << [fn |-> "reject", arg |-> raw_res.ok] >>
         ELSE << [fn |-> "reject",
                  arg |-> new_error(raw_res.err.name, raw_res.err.message,
                                    raw_res.err.stack)] >>
    ELSE << [fn |-> "reject", arg |-> new_error("Error", produced_result.err, "")] >>

\* the producer's error string passed as the name of the Error, not its message
SettleCallsErrAsName(produced_result, raw_res) ==
    IF IsOk(produced_result)
    THEN IF IsOk(raw_res)
         THEN << [fn |-> "resolve", arg |-> raw_res.ok] >>
         ELSE << [fn |-> "reject",
                  arg |-> new_error(raw_res.err.name, raw_res.err.message,
                                    raw_res.err.stack)] >>
    ELSE << [fn |-> "reject", arg |-> new_error(produced_result.err, "Error", "")] >>

\* a mapper error turned into a generic Error that keeps the message only
SettleCallsGenericError(produced_result, raw_res) ==
    IF IsOk(produced_result)
    THEN IF IsOk(raw_res)
         THEN << [fn |-> "resolve", arg |-> raw_res.ok] >>
         ELSE << [fn |-> "reject",
                  arg |-> new_error("Error", raw_res.err.message, "")] >>
    ELSE << [fn |-> "reject", arg |-> new_error("Error", produced_result.err, "")] >>

\* match produced_result { Ok => match mapper(..) { Ok => resolve_q, Err =>
\* reject_q(new_error(name, message, stack)) }, Err => reject_q(new_error(
\* "Error", err, "")) }: the calls the closure makes on the promise, in order.
\* raw_res is what the mapper returned; it is read only after Ok(ok_res).
SettleCalls(produced_result, raw_res) ==
    IF IsOk(produced_result)
    THEN IF IsOk(raw_res)
         THEN << [fn |-> "resolve", arg |-> raw_res.ok] >>
         ELSE << [fn |-> "reject",
                  arg |-> new_error(raw_res.err.name, raw_res.err.message,
                                    raw_res.err.stack)] >>
    ELSE << [fn |-> "reject", arg |-> new_error("Error", produced_result.err, "")] >>

\* a mapper that is called whatever the producer returned
MapperCalledAlways(produced_result) == TRUE

\* the mapper runs in the Ok(ok_res) arm only
MapperCalled(produced_result) == IsOk(produced_result)

\* what the mapper may return when called with the produced result
MapperOutcomes(produced_result) ==
    IF IsOk(produced_result) THEN MapperResults(produced_result.ok)
    ELSE {Err(JsError("TypeError", "bad", ""))}

\* the engine applies the calls to the promise, in order
RECURSIVE ApplyCalls(_, _, _)
ApplyCalls(proms, prom_ref, calls) ==
    IF calls = <<>> THEN proms
    ELSE ApplyCalls(IF Head(calls).fn = "resolve"
                    THEN resolve_q(proms, prom_ref, Head(calls).arg)
                    ELSE reject_q(proms, prom_ref, Head(calls).arg),
                    prom_ref, Tail(calls))

CountCalls(calls, fn) == Cardinality({i \in DOMAIN calls : calls[i].fn = fn})

\* the part of the closure that runs with the context and the promise:
\* errOk: new_error returns Ok; callOk: the resolve or reject call returns Ok;
\* each expect() panics on the failure
Settle(e, thread, prom_ref, raw_res, errOk, callOk) ==
    LET p == prom_ref.promise
        mapped == MapperCalled(e.produced_result)
        calls == SettleCalls(e.produced_result, raw_res)
        noError == calls # <<>> /\ calls[1].fn = "reject" /\ ~errOk
        panics == noError \/ ~callOk
        attempted == IF noError THEN <<>>
                     ELSE IF ~callOk THEN SubSeq(calls, 1, 1)
                     ELSE calls
        o1 == [obs EXCEPT ![e.op].registryThread = @ \cup {thread},
                          ![e.op].mapperCalls = IF mapped THEN @ + 1 ELSE @,
                          ![e.op].mapperThread = IF mapped THEN @ \cup {thread} ELSE @,
                          ![e.op].mapperResult = IF mapped THEN {raw_res} ELSE @,
                          ![e.op].outcome = IF panics THEN "panicked" ELSE "settled"]
    IN  /\ promise' = IF panics THEN promise ELSE ApplyCalls(promise, prom_ref, calls)
        /\ obs' = [o1 EXCEPT ![p].resolveCalls = @ + CountCalls(attempted, "resolve"),
                             ![p].rejectCalls = @ + CountCalls(attempted, "reject"),
                             ![p].settleThread = IF attempted = <<>> THEN @
                                                 ELSE @ \cup {thread}]
        /\ enginePc' = IF panics THEN Panicked(thread) ELSE enginePc

\* the whole closure: look the context up, take the promise out of the map,
\* settle it; without the context, log and return
Continuation(e, thread) ==
    IF opt_context(e.ctx_id)
    THEN IF RESOLVING_PROMISES[e.id] = NoEntry
         THEN \* the map has no such element
              /\ enginePc' = Panicked(thread)
              /\ obs' = [obs EXCEPT ![e.op].outcome = "panicked",
                                    ![e.op].registryThread = @ \cup {thread}]
              /\ UNCHANGED <<RESOLVING_PROMISES, promise>>
         ELSE /\ RESOLVING_PROMISES' = map_remove(RESOLVING_PROMISES, e.id)
              /\ \E raw_res \in MapperOutcomes(e.produced_result),
                    errOk \in BOOLEAN, callOk \in BOOLEAN :
                    Settle(e, thread, RESOLVING_PROMISES[e.id], raw_res, errOk, callOk)
    ELSE \* log::error!("resolving_promise failed, context was dropped")
         /\ obs' = [obs EXCEPT ![e.op].outcome = "dropped"]
         /\ UNCHANGED <<RESOLVING_PROMISES, promise, enginePc>>

\* the event loop runs the task at the head of its queue
RunContinuation ==
    /\ enginePc = "idle"
    /\ eventLoop # <<>>
    /\ eventLoop' = Tail(eventLoop)
    /\ Continuation(Head(eventLoop), EngineThread)
    /\ UNCHANGED <<compVars, contexts, frame, started, helperTask>>

---------------------------------------------------------------------------
\* The helper threads.

\* a helper thread takes the task and calls producer()
ProducerStart(op) ==
    /\ helperTask[op].pc = "queued"
    /\ helperTask' = [helperTask EXCEPT ![op].pc = "producing"]
    /\ obs' = [obs EXCEPT ![op].producerCalls = @ + 1,
                          ![op].producerThread = @ \cup {WorkerThread}]
    /\ UNCHANGED <<compVars, contexts, RESOLVING_PROMISES, enginePc, frame, started,
                   eventLoop, promise>>

\* producer() returns
ProducerFinish(op) ==
    /\ helperTask[op].pc = "producing"
    /\ \E r \in ProducerResults :
          helperTask' = [helperTask EXCEPT ![op].pc = "produced",
                                           ![op].produced_result = {r}]
    /\ UNCHANGED <<compVars, contexts, RESOLVING_PROMISES, enginePc, frame, started,
                   eventLoop, promise, obs>>

\* the closure posted to the event loop and what it captures
Closure(op, t) ==
    [op |-> op, id |-> t.id, ctx_id |-> t.ctx_id,
     produced_result |-> CHOOSE r \in t.produced_result : TRUE]

\* the helper thread runs the closure itself instead of posting it
run_closure_in_helper_thread(op) ==
    /\ Continuation(Closure(op, helperTask[op]), WorkerThread)
    /\ UNCHANGED eventLoop

\* the position of the next post among all posts made so far
NextPostSeq == Cardinality({o \in Ops : obs[o].postSeq > 0}) + 1

\* a post that puts the closure in front of the tasks already waiting
add_rt_task_to_event_loop_front(op) ==
    /\ eventLoop' = <<Closure(op, helperTask[op])>> \o eventLoop
    /\ obs' = [obs EXCEPT ![op].postThread = @ \cup {WorkerThread},
                          ![op].postSeq = NextPostSeq]
    /\ UNCHANGED <<RESOLVING_PROMISES, enginePc, promise>>

\* rti_ref.add_rt_task_to_event_loop_void(move |q_js_rt| ...)
add_rt_task_to_event_loop_void(op) ==
    /\ eventLoop' = Append(eventLoop, Closure(op, helperTask[op]))
    /\ obs' = [obs EXCEPT ![op].postThread = @ \cup {WorkerThread},
                          ![op].postSeq = NextPostSeq]
    /\ UNCHANGED <<RESOLVING_PROMISES, enginePc, promise>>

\* the helper thread posts the continuation and is done with the task
PostContinuation(op) ==
    /\ helperTask[op].pc = "produced"
    /\ helperTask' = [helperTask EXCEPT ![op].pc = "posted"]
    /\ add_rt_task_to_event_loop_void(op)
    /\ UNCHANGED <<compVars, contexts, frame, started>>

---------------------------------------------------------------------------
Next ==
    \/ \E c \in Contexts : StartRegister(c)
    \/ StartDispatch
    \/ StartReturn
    \/ \E c \in Contexts : DisposeContext(c)
    \/ RunContinuation
    \/ \E op \in Ops : ProducerStart(op)
    \/ \E op \in Ops : ProducerFinish(op)
    \/ \E op \in Ops : PostContinuation(op)

Spec == Init /\ [][Next]_vars

---------------------------------------------------------------------------
\* The continuation of a call has run (to its end, to a panic, or was dropped)
Completed(op) == obs[op].outcome \in {"settled", "panicked", "dropped"}

\* the producer's result of a call, once there is one
Produced(op) == helperTask[op].produced_result

\* C1: for every call of new_resolving_promise, in every interleaving of helper
\* threads and event-loop tasks, the resolve and reject functions of its promise
\* are called at most once in total: never both, and neither of them twice.
C1_AtMostOneSettlement ==
    \A op \in Ops : obs[op].resolveCalls + obs[op].rejectCalls <= 1

\* two calls have settled, one by resolve and one by reject
C1_Witness ==
    \E a \in Ops, b \in Ops :
        /\ a # b
        /\ obs[a].resolveCalls = 1 /\ promise[a].state = "resolved"
        /\ obs[b].rejectCalls = 1 /\ promise[b].state = "rejected"

\* C2: the mapper, the resolve or reject call and every insert into and remove
\* from RESOLVING_PROMISES run on the engine thread only; a helper thread only
\* runs the producer and posts the closure; the helper task and the posted
\* closure hold an integer id, a context id and the producer's plain result,
\* and never a PromiseRef.
C2_ThreadConfinement ==
    /\ \A op \in Ops :
          /\ obs[op].mapperThread \subseteq {EngineThread}
          /\ obs[op].settleThread \subseteq {EngineThread}
          /\ obs[op].registryThread \subseteq {EngineThread}
          /\ obs[op].producerThread \subseteq {WorkerThread}
          /\ obs[op].postThread \subseteq {WorkerThread}
          /\ DOMAIN helperTask[op] = {"pc", "id", "ctx_id", "produced_result"}
          /\ helperTask[op].pc # "none" =>
                /\ helperTask[op].id \in Ids
                /\ helperTask[op].ctx_id \in Contexts
                /\ helperTask[op].produced_result \subseteq ProducerResults
    /\ \A i \in DOMAIN eventLoop :
          /\ DOMAIN eventLoop[i] = {"op", "id", "ctx_id", "produced_result"}
          /\ eventLoop[i].id \in Ids
          /\ eventLoop[i].ctx_id \in Contexts
          /\ eventLoop[i].produced_result \in ProducerResults

\* a call went all the way: produced and posted by a helper thread, mapped and
\* settled by the engine thread, which also inserted and removed its entry
C2_Witness ==
    \E op \in Ops :
        /\ obs[op].outcome = "settled"
        /\ obs[op].producerThread = {WorkerThread}
        /\ obs[op].postThread = {WorkerThread}
        /\ obs[op].mapperThread = {EngineThread}
        /\ obs[op].settleThread = {EngineThread}
        /\ obs[op].registryThread = {EngineThread}

\* C3: once every call made so far has completed and the context of each is
\* still alive, RESOLVING_PROMISES is empty; until its continuation runs, the
\* entry of a call stays where its own call put it, whatever the others do.
C3_RegistryEmptyAfterCompletion ==
    /\ (\A op \in 1..started : Completed(op) /\ helperTask[op].ctx_id \in contexts)
          => is_empty(RESOLVING_PROMISES)
    /\ \A op \in Ops :
          /\ (helperTask[op].pc # "none" /\ ~Completed(op))
                => RESOLVING_PROMISES[helperTask[op].id] = PromiseRef(op)
          /\ (Completed(op) /\ helperTask[op].ctx_id \in contexts)
                => \A i \in Ids : RESOLVING_PROMISES[i] # PromiseRef(op)

\* two calls completed, one resolved and one rejected, all contexts alive
C3_Witness ==
    /\ started >= 2
    /\ contexts = Contexts
    /\ \A op \in 1..started : Completed(op)
    /\ \E a \in 1..started, b \in 1..started :
          promise[a].state = "resolved" /\ promise[b].state = "rejected"
    /\ is_empty(RESOLVING_PROMISES)

ContinuationRan(op) ==
    /\ obs[op].outcome = "none"
    /\ obs'[op].outcome \in {"settled", "panicked", "dropped"}

\* C7: the context is looked up by its id when the continuation runs. If it is
\* gone by then (disposed after the dispatch), the continuation calls neither
\* the mapper nor resolve nor reject and does not panic; from then on the entry
\* of its id stays in RESOLVING_PROMISES and the promise stays pending; a
\* continuation whose context is alive is not dropped and settles its promise,
\* also after another call was dropped.
C7_DroppedWhenContextDisposed ==
    [][ \A op \in Ops :
          /\ (ContinuationRan(op) /\ helperTask[op].ctx_id \notin contexts)
                => /\ obs'[op].outcome = "dropped"
                   /\ enginePc' = enginePc
          /\ (ContinuationRan(op) /\ helperTask[op].ctx_id \in contexts)
                => /\ obs'[op].outcome \in {"settled", "panicked"}
                   /\ obs'[op].outcome = "settled"
                        => promise'[op].state \in {"resolved", "rejected"}
          /\ obs'[op].outcome = "dropped"
                => /\ obs'[op].mapperCalls = 0
                   /\ obs'[op].resolveCalls = 0
                   /\ obs'[op].rejectCalls = 0
                   /\ promise'[op].state = "pending"
                   /\ RESOLVING_PROMISES'[helperTask'[op].id] = PromiseRef(op)
          /\ obs[op].outcome = "dropped" => obs'[op].outcome = "dropped"
      ]_vars

\* a call was dropped because its context was disposed, its entry is still in
\* the map, and a call on the other context has settled
C7_Witness ==
    \E a \in Ops, b \in Ops :
        /\ obs[a].outcome = "dropped"
        /\ helperTask[a].ctx_id \notin contexts
        /\ promise[a].state = "pending"
        /\ RESOLVING_PROMISES[helperTask[a].id] = PromiseRef(a)
        /\ obs[b].outcome = "settled"
        /\ helperTask[b].ctx_id \in contexts
        /\ promise[b].state \in {"resolved", "rejected"}
        /\ enginePc = "idle"

\* C8: when new_resolving_promise is about to return Ok(return_ref), its
\* promise is pending and its entry is in RESOLVING_PROMISES, also when the
\* producer has already returned and the closure is already posted; no promise
\* is settled, and no continuation has run, before its call has returned.
C8_PendingAtReturn ==
    /\ enginePc = "return"
          => /\ promise[frame.op].state = "pending"
             /\ RESOLVING_PROMISES[frame.id] = PromiseRef(frame.op)
             /\ obs[frame.op].outcome = "none"
             /\ obs[frame.op].resolveCalls + obs[frame.op].rejectCalls = 0
    /\ \A op \in Ops :
          (\/ promise[op].state \in {"resolved", "rejected"}
           \/ obs[op].resolveCalls + obs[op].rejectCalls > 0
           \/ Completed(op))
             => obs[op].returned

\* the call is about to return while its closure is already in the event loop
C8_Witness ==
    /\ enginePc = "return"
    /\ helperTask[frame.op].pc = "posted"
    /\ \E i \in DOMAIN eventLoop : eventLoop[i].op = frame.op
    /\ promise[frame.op].state = "pending"

\* C9: new_resolving_promise never waits for a producer: while the producer of
\* any call has not returned, the engine thread can take its next step, which
\* is to dispatch, to return from the call, to start another call or to run
\* the continuation at the head of the event loop.
C9_StartNeverWaits ==
    \A op \in Ops :
        helperTask[op].pc \in {"queued", "producing"}
            => /\ enginePc = "dispatch" => ENABLED StartDispatch
               /\ enginePc = "return" => ENABLED StartReturn
               /\ (enginePc = "idle" /\ started < MaxOps /\ contexts # {})
                     => ENABLED (\E c \in Contexts : StartRegister(c))
               /\ (enginePc = "idle" /\ eventLoop # <<>>)
                     => ENABLED RunContinuation

\* the producer of one call is still running; a call started after it has
\* returned and its promise is settled
C9_Witness ==
    \E a \in Ops, b \in Ops :
        /\ a < b
        /\ helperTask[a].pc = "producing"
        /\ promise[a].state = "pending"
        /\ obs[b].returned
        /\ obs[b].outcome = "settled"
        /\ promise[b].state \in {"resolved", "rejected"}

\* C10: the producer of a call is called at most once, on a helper thread, and
\* exactly once by the time the helper task has started; the helper task can
\* always take its next step, whatever became of the context; the mapper is
\* called at most once, and only in a continuation that runs with the context
\* alive after the producer returned Ok.
C10_ProducerOnceMapperAtMostOnce ==
    /\ [](\A op \in Ops :
            /\ obs[op].producerCalls <= 1
            /\ obs[op].producerThread \subseteq {WorkerThread}
            /\ helperTask[op].pc \in {"none", "queued"} => obs[op].producerCalls = 0
            /\ helperTask[op].pc \in {"producing", "produced", "posted"}
                  => obs[op].producerCalls = 1
            /\ helperTask[op].pc = "queued" => ENABLED ProducerStart(op)
            /\ helperTask[op].pc = "producing" => ENABLED ProducerFinish(op)
            /\ helperTask[op].pc = "produced" => ENABLED PostContinuation(op)
            /\ Completed(op) => helperTask[op].pc = "posted"
            /\ obs[op].mapperCalls <= 1)
    /\ [][ \A op \in Ops :
             obs'[op].mapperCalls > obs[op].mapperCalls
                => /\ Produced(op) # {}
                   /\ \A r \in Produced(op) : IsOk(r)
                   /\ helperTask[op].ctx_id \in contexts
                   /\ ContinuationRan(op)
         ]_vars

\* the context of a call was disposed, its producer still ran once and its
\* closure was posted and dropped; another call had its mapper called once
C10_Witness ==
    \E a \in Ops, b \in Ops :
        /\ helperTask[a].ctx_id \notin contexts
        /\ helperTask[a].pc = "posted"
        /\ obs[a].producerCalls = 1
        /\ obs[a].outcome = "dropped"
        /\ obs[a].mapperCalls = 0
        /\ obs[b].producerCalls = 1
        /\ obs[b].mapperCalls = 1

\* the engine failed to create the promise capability of the call
CreationFailed(op) == op <= started /\ promise[op].state = "absent"

\* C11: if the engine fails to create the promise capability, the creation of
\* the PromiseRef fails with an error and does not abort, new_resolving_promise
\* returns that error to its caller, and nothing is inserted in
\* RESOLVING_PROMISES, dispatched to a helper thread or posted to the event loop.
C11_CreationFailureReturnsError ==
    \A op \in Ops :
        CreationFailed(op)
            => /\ enginePc # "panicked"
               /\ obs[op].outcome = "start_error"
               /\ \A i \in Ids : RESOLVING_PROMISES[i] # PromiseRef(op)
               /\ helperTask[op].pc = "none"
               /\ \A i \in DOMAIN eventLoop : eventLoop[i].op # op

\* C12: no failure after the dispatch is fatal: whatever fails (the producer,
\* the mapper, new_error, the resolve or reject call, the lookup of the entry
\* or of the context), the continuation ends with a rejected promise or with a
\* logged, abandoned call, and the engine thread does not panic in it.
C12_NoFailureIsFatal ==
    \A op \in Ops :
        Completed(op)
            => /\ obs[op].outcome \in {"settled", "dropped"}
               /\ obs[op].outcome = "settled"
                    => promise[op].state \in {"resolved", "rejected"}
               /\ obs[op].outcome = "dropped" => promise[op].state = "pending"

---------------------------------------------------------------------------
\* The AutoIdMap of RESOLVING_PROMISES under arbitrary insert and remove calls
\* of the engine thread.

\* number of insert calls a behaviour of RegistrySpec may make
MaxInserts == 5

\* the variables of the bridge that the calls on the map leave alone
bridgeVars == <<contexts, frame, started, helperTask, eventLoop, promise, obs>>

\* map.insert(promise_ref): stores the element under an id that is not in the
\* map and returns the id
RegInsert ==
    /\ enginePc = "idle"
    /\ regInserted < MaxInserts
    /\ \E id \in FreeIds(RESOLVING_PROMISES) :
          LET elem == PromiseRef(regInserted + 1) IN
          /\ RESOLVING_PROMISES' = map_insert(RESOLVING_PROMISES, id, elem)
          /\ regLive' = regLive \cup {<<id, elem>>}
          /\ regLast' = [n |-> regLast.n + 1, call |-> "insert", id |-> id,
                         ret |-> {}, panicked |-> FALSE]
    /\ regInserted' = regInserted + 1
    /\ UNCHANGED <<bridgeVars, enginePc, handleVars, dateVars, borrowVars, stale,
                   threadVars>>

\* map.remove(&id): takes the element out of the map and returns it. The
\* caller uses the result as a PromiseRef (prom_ref.resolve_q(..)), not as an
\* Option, so for an id that is not in the map the call cannot return: it panics.
RegRemove(id) ==
    /\ enginePc = "idle"
    /\ IF RESOLVING_PROMISES[id] = NoEntry
       THEN /\ enginePc' = Panicked(EngineThread)
            /\ regLast' = [n |-> regLast.n + 1, call |-> "remove", id |-> id,
                           ret |-> {}, panicked |-> TRUE]
            /\ UNCHANGED <<RESOLVING_PROMISES, regLive>>
       ELSE /\ RESOLVING_PROMISES' = map_remove(RESOLVING_PROMISES, id)
            /\ regLast' = [n |-> regLast.n + 1, call |-> "remove", id |-> id,
                           ret |-> {RESOLVING_PROMISES[id]}, panicked |-> FALSE]
            /\ regLive' = {p \in regLive : p[1] # id}
            /\ UNCHANGED enginePc
    /\ UNCHANGED <<bridgeVars, regInserted, handleVars, dateVars, borrowVars, stale,
                   threadVars>>

RegNext ==
    \/ RegInsert
    \/ \E id \in Ids : RegRemove(id)

RegistrySpec == Init /\ [][RegNext]_vars

\* C13: for all sequences of insert and remove, insert never returns an id
\* that is in use, the first remove of an id returns the element insert stored
\* under it, and a later remove of that id, or a remove of an id that was never
\* inserted, returns nothing: never a stale or foreign element, never a panic.
C13_RemovableExactlyOnce ==
    [][ regLast'.n # regLast.n
          => /\ regLast'.call = "insert"
                   => \A p \in regLive : p[1] # regLast'.id
             /\ regLast'.call = "remove"
                   => /\ ~regLast'.panicked
                      /\ regLast'.ret = {p[2] : p \in {q \in regLive : q[1] = regLast'.id}}
      ]_vars

\* every call made so far has had its producer finish and its continuation
\* executed or dropped
NoneInFlight == \A op \in 1..started : Completed(op)

\* C14: in every reachable state in which no call is in flight (the producer
\* of every call made so far has finished and its continuation has been
\* executed or dropped), RESOLVING_PROMISES is empty.
C14_EmptyWhenNoneInFlight ==
    NoneInFlight => is_empty(RESOLVING_PROMISES)

\* the continuation of a was posted to the event loop before that of b
PostedBefore(a, b) == obs[a].postSeq > 0 /\ obs[a].postSeq < obs[b].postSeq

Settled(op) == promise[op].state \in {"resolved", "rejected"}

\* this step settles the promise of op
SettlesNow(op) == promise[op].state = "pending" /\ Settled(op)'

\* C15: promises are settled in the order their continuations were posted to
\* the event loop, not in the order of the calls: when the continuation of a
\* was posted before that of b and both contexts are alive, the promise of b
\* is settled only after that of a; which producer finishes and posts first is
\* free, so a later call may settle first.
C15_SettledInPostOrder ==
    [][ \A a, b \in Ops :
            ( /\ PostedBefore(a, b)
              /\ SettlesNow(b)
              /\ helperTask[a].ctx_id \in contexts
              /\ helperTask[b].ctx_id \in contexts )
                => Settled(a)
      ]_vars

\* the second call has settled while the first call's continuation, posted
\* behind it, still waits with its promise pending
C15_Witness ==
    /\ Settled(2)
    /\ promise[1].state = "pending"
    /\ helperTask[1].ctx_id \in contexts
    /\ PostedBefore(2, 1)
    /\ \E i \in DOMAIN eventLoop : eventLoop[i].op = 1

---------------------------------------------------------------------------
\* Scheduling: a helper thread that holds a task goes on with it (the producer
\* returns, the closure is posted), and the event loop thread goes on with the
\* call it is in and with the tasks in its queue.
FairSpec ==
    /\ Spec
    /\ WF_vars(StartDispatch)
    /\ WF_vars(StartReturn)
    /\ WF_vars(RunContinuation)
    /\ \A op \in Ops : /\ WF_vars(ProducerStart(op))
                       /\ WF_vars(ProducerFinish(op))
                       /\ WF_vars(PostContinuation(op))

\* C16: under fair scheduling of the helper threads and of the event loop,
\* every call whose producer has returned and whose context stays alive is
\* eventually settled: its continuation runs, its promise becomes resolved or
\* rejected, and its entry is removed from RESOLVING_PROMISES.
C16_EventuallySettled ==
    \A op \in Ops :
        (Produced(op) # {})
            ~> \/ helperTask[op].ctx_id \notin contexts
               \/ /\ Settled(op)
                  /\ \A i \in Ids : RESOLVING_PROMISES[i] # PromiseRef(op)

---------------------------------------------------------------------------
\* The JSValueRef handles of one promise object: the one the PromiseRef keeps,
\* the ones get_promise_obj_ref returns, and further handles and clones.

\* number of handles a behaviour of HandleSpec may make after the first
MaxHandleCalls == 4

\* a drop that decrements whatever the kind of the handle
JSValueRef_drop_always(kind, count) == count - 1

\* drop of a JSValueRef: an owning handle gives its reference back
JSValueRef_drop(kind, count) == IF kind = "owning" THEN count - 1 ELSE count

\* JSValueRef::new(val): an owning handle, holds one reference
JSValueRef_new(count) == count + 1

\* JSValueRef::new_no_free(val): a borrowed handle, holds no reference
JSValueRef_new_no_free(count) == count

\* JSValueRef::clone: one more reference for an owning handle, a plain copy
\* of a borrowed one
JSValueRef_clone(kind, count) == IF kind = "owning" THEN count + 1 ELSE count

\* the promise_obj_ref of a PromiseRef is made by JSValueRef::new(prom_val)
promise_obj_ref == "owning"

\* a getter that wraps the promise object in a handle made by new_no_free
get_promise_obj_ref_no_free(count) ==
    [kind |-> "borrowed", count |-> JSValueRef_new_no_free(count)]

\* PromiseRef::get_promise_obj_ref: self.promise_obj_ref.clone()
get_promise_obj_ref(count) ==
    [kind |-> promise_obj_ref, count |-> JSValueRef_clone(promise_obj_ref, count)]

\* the kind of the handles get_promise_obj_ref returns
ReturnedKind == get_promise_obj_ref(hCount).kind

\* the engine frees the object when a decrement takes its count to zero
Released(count, newCount) == IF newCount < count /\ newCount <= 0 THEN 1 ELSE 0

\* one call on a handle of the given kind that takes the count to newCount
HandleCall(call, kind, newCount) ==
    /\ hCount' = newCount
    /\ hReleased' = hReleased + Released(hCount, newCount)
    /\ hLast' = [n |-> hLast.n + 1, call |-> call, kind |-> kind]
    /\ UNCHANGED <<bridgeVars, RESOLVING_PROMISES, enginePc, regVars, dateVars, borrowVars, stale,
                   threadVars>>

\* new_promise: let promise_obj_ref = JSValueRef::new(prom_val)
HandleNewPromise ==
    /\ hLast.n = 0
    /\ hPromiseRef' = 1
    /\ HandleCall("new", promise_obj_ref, JSValueRef_new(hCount))
    /\ UNCHANGED <<hReturned, hLive, hCalls>>

\* let return_ref = promise_ref.get_promise_obj_ref()
HandleGetPromiseObjRef ==
    /\ hPromiseRef = 1
    /\ hCalls < MaxHandleCalls
    /\ hCalls' = hCalls + 1
    /\ hReturned' = hReturned + 1
    /\ HandleCall("get_promise_obj_ref", get_promise_obj_ref(hCount).kind,
                  get_promise_obj_ref(hCount).count)
    /\ UNCHANGED <<hPromiseRef, hLive>>

\* the caller drops a handle it got from get_promise_obj_ref
HandleDropReturned ==
    /\ hReturned > 0
    /\ hReturned' = hReturned - 1
    /\ HandleCall("drop_returned", ReturnedKind, JSValueRef_drop(ReturnedKind, hCount))
    /\ UNCHANGED <<hPromiseRef, hLive, hCalls>>

\* the PromiseRef is dropped (end of the continuation that removed it)
HandleDropPromiseRef ==
    /\ hPromiseRef = 1
    /\ hPromiseRef' = 0
    /\ HandleCall("drop_promise_ref", promise_obj_ref,
                  JSValueRef_drop(promise_obj_ref, hCount))
    /\ UNCHANGED <<hReturned, hLive, hCalls>>

\* JSValueRef::new_no_free on the promise object while it is alive
HandleNewNoFree ==
    /\ hCount > 0
    /\ hCalls < MaxHandleCalls
    /\ hCalls' = hCalls + 1
    /\ hLive' = [hLive EXCEPT !["borrowed"] = @ + 1]
    /\ HandleCall("new_no_free", "borrowed", JSValueRef_new_no_free(hCount))
    /\ UNCHANGED <<hPromiseRef, hReturned>>

\* clone of one of the live handles of kind k
HandleClone(k) ==
    /\ \/ hLive[k] > 0
       \/ k = ReturnedKind /\ hReturned > 0
       \/ k = promise_obj_ref /\ hPromiseRef = 1
    /\ hCalls < MaxHandleCalls
    /\ hCalls' = hCalls + 1
    /\ hLive' = [hLive EXCEPT ![k] = @ + 1]
    /\ HandleCall("clone", k, JSValueRef_clone(k, hCount))
    /\ UNCHANGED <<hPromiseRef, hReturned>>

\* drop of one of the other live handles of kind k
HandleDrop(k) ==
    /\ hLive[k] > 0
    /\ hLive' = [hLive EXCEPT ![k] = @ - 1]
    /\ HandleCall("drop", k, JSValueRef_drop(k, hCount))
    /\ UNCHANGED <<hPromiseRef, hReturned, hCalls>>

HandleNext ==
    \/ HandleNewPromise
    \/ HandleGetPromiseObjRef
    \/ HandleDropReturned
    \/ HandleDropPromiseRef
    \/ HandleNewNoFree
    \/ \E k \in Kinds : HandleClone(k)
    \/ \E k \in Kinds : HandleDrop(k)

HandleSpec == Init /\ [][HandleNext]_vars

\* this step is a call of the given name on a handle
HandleCalled(call) == hLast'.n # hLast.n /\ hLast'.call = call

OwningLive ==
    hLive["owning"]
      + (IF promise_obj_ref = "owning" THEN hPromiseRef ELSE 0)
      + (IF ReturnedKind = "owning" THEN hReturned ELSE 0)

\* C18: however often an owning handle is cloned and in whatever order the
\* clones are dropped, the object is released exactly once and only by the
\* drop of the last owning handle (never twice, never while an owning handle
\* exists, and the count is the number of owning handles until then); making,
\* cloning and dropping a borrowed handle never changes the count and never
\* releases the object.
C18_HandleReferenceCounting ==
    /\ [](/\ hReleased <= 1
          /\ OwningLive > 0 => (hReleased = 0 /\ hCount = OwningLive)
          /\ (hLast.n > 0 /\ OwningLive = 0) => (hReleased = 1 /\ hCount = 0))
    /\ [][ (hLast'.n # hLast.n /\ hLast'.kind = "borrowed")
                => (hCount' = hCount /\ hReleased' = hReleased)
         ]_vars

\* at least three further handles were made, a borrowed one of them is still
\* held, every owning handle is dropped and the last such drop released the
\* object
C18_Witness ==
    /\ hLast.kind = "owning"
    /\ hReleased = 1
    /\ OwningLive = 0
    /\ hCalls >= 3
    /\ hLive["borrowed"] > 0

---------------------------------------------------------------------------
\* Date objects: set_time and get_time on one Date.
\*
\* A timestamp is an f64 with an integral value. It is written as
\* [hi |-> h, lo |-> l] for the number h * 2^31 + l with 0 <= l < 2^31, so
\* that values on both sides of the i32 range are at hand; an i32 is an
\* integer.

\* the largest i32
I32Max == 2147483647

\* timestamps have hi in -MaxHi..MaxHi
MaxHi == 2

\* 0, 2, 2^31 - 1 above a multiple of 2^31: with hi = 1 and lo = 0 this is
\* 2147483648, with hi = 0 and lo = 2 it is 2, as in test_date
Timestamps == [hi : (-MaxHi)..MaxHi, lo : {0, 2, I32Max}]

\* the number is in the range of an i32
FitsI32(t) == t.hi \in {-1, 0}

\* the i32 equal to a number in the range of an i32
AsI32(t) == IF t.hi = 0 THEN t.lo ELSE (t.lo - I32Max) - 1

\* i as f64
as_f64(i) == IF i >= 0 THEN [hi |-> 0, lo |-> i] ELSE [hi |-> -1, lo |-> (i + I32Max) + 1]

\* primitives::from_f64(timestamp): a float-tagged value
from_f64(t) == [tag |-> "float64", val |-> t]

is_f64(v) == v.tag = "float64"

\* primitives::to_f64 of a float-tagged value
to_f64(v) == Ok(v.val)

\* primitives::to_i32: the i32 of an int-tagged value, an error otherwise
to_i32(v) == IF v.tag = "int" THEN Ok(v.val) ELSE Err("value is not an i32")

\* what "getTime" may hand back for the time t: a float-tagged value, or an
\* int-tagged one when t is in the range of an i32
getTime(t) ==
    {[tag |-> "float64", val |-> t]}
        \cup (IF FitsI32(t) THEN {[tag |-> "int", val |-> AsI32(t)]} ELSE {})

\* a get_time that reads every value as an i32
get_time_i32_only(time_ref) ==
    IF IsOk(to_i32(time_ref)) THEN Ok(as_f64(to_i32(time_ref).ok)) ELSE to_i32(time_ref)

\* get_time, from the value "getTime" returned
get_time(time_ref) ==
    IF is_f64(time_ref)
    THEN to_f64(time_ref)
    ELSE IF IsOk(to_i32(time_ref))
         THEN Ok(as_f64(to_i32(time_ref).ok))
         ELSE to_i32(time_ref)

\* the state of the parts other than the Date
notDateVars == <<bridgeVars, RESOLVING_PROMISES, enginePc, regVars, handleVars, borrowVars, stale,
                   threadVars>>

\* new_date_q: a Date with some time (now)
DateNew ==
    /\ dTime = {}
    /\ \E now \in Timestamps : dTime' = {now}
    /\ UNCHANGED <<dSet, dGot, notDateVars>>

\* set_time(date_ref, timestamp): "setTime" with from_f64(timestamp)
DateSetTime(timestamp) ==
    /\ dTime # {}
    /\ dTime' = {from_f64(timestamp).val}
    /\ dSet' = {timestamp}
    /\ UNCHANGED <<dGot, notDateVars>>

\* get_time(date_ref): "getTime", then the conversion of what it returned
DateGetTime ==
    /\ dTime # {}
    /\ \E t \in dTime : \E time_ref \in getTime(t) :
          dGot' = [n |-> (dGot.n + 1) % 2, tag |-> time_ref.tag,
                   ret |-> {get_time(time_ref)}, prev |-> dGot.ret]
    /\ UNCHANGED <<dTime, dSet, notDateVars>>

DateNext ==
    \/ DateNew
    \/ \E t \in Timestamps : DateSetTime(t)
    \/ DateGetTime

DateSpec == Init /\ [][DateNext]_vars

---------------------------------------------------------------------------
\* the call has its task dispatched and its entry is still due in the map: its
\* continuation has not run, or it ran and was dropped
EntryDue(op) ==
    /\ helperTask[op].pc # "none"
    /\ obs[op].outcome \in {"none", "dropped"}

\* C20: ids are unique and pair each continuation with its own promise: the
\* id a call holds, in flight or leaked, maps to the PromiseRef of that call,
\* so no two calls share one; map.insert returns an id that is not in the map;
\* and a continuation takes out and settles the promise of the call whose
\* producer result it carries, and touches the promise of no other call.
C20_IdsPairContinuationWithPromise ==
    /\ [](/\ \A op \in Ops :
                EntryDue(op) => RESOLVING_PROMISES[helperTask[op].id] = PromiseRef(op)
          /\ \A a, b \in Ops :
                (a # b /\ EntryDue(a) /\ EntryDue(b)) => helperTask[a].id # helperTask[b].id
          /\ enginePc = "dispatch" => RESOLVING_PROMISES[frame.id] = PromiseRef(frame.op))
    /\ [][ /\ (started' = started + 1 /\ enginePc' = "dispatch")
                => RESOLVING_PROMISES[frame'.id] = NoEntry
           /\ \A op \in Ops :
                ContinuationRan(op)
                    => /\ obs'[op].outcome = "settled" => SettlesNow(op)
                       /\ \A o \in Ops \ {op} :
                            /\ promise'[o] = promise[o]
                            /\ obs'[o].resolveCalls = obs[o].resolveCalls
                            /\ obs'[o].rejectCalls = obs[o].rejectCalls
         ]_vars

\* the first call's continuation was dropped and its entry is still in the
\* map; the second call, under another id, has settled its own promise
C20_Witness ==
    /\ obs[1].outcome = "dropped"
    /\ RESOLVING_PROMISES[helperTask[1].id] = PromiseRef(1)
    /\ obs[2].outcome = "settled"
    /\ Settled(2)
    /\ promise[1].state = "pending"

---------------------------------------------------------------------------
\* The RefCell around RESOLVING_PROMISES: who holds its mutable borrow while
\* the continuation runs, with a mapper that may itself call
\* new_resolving_promise on the engine thread.

\* number of inserts a behaviour of BorrowSpec may make
MaxBorrowOps == 4

\* a RefMut that lives on after the closure of the remove returned
borrow_after_remove_kept == TRUE

\* RESOLVING_PROMISES.with(|map_rc| { let map = &mut *map_rc.borrow_mut();
\* map.remove(&id) }): the RefMut is dropped when the closure returns
borrow_after_remove == FALSE

\* the same for the closure of the insert
borrow_after_insert == FALSE

\* the state of the parts other than the RefCell and the map
notBorrowVars == <<bridgeVars, regVars, handleVars, dateVars, stale, threadVars>>

\* map_rc.borrow_mut() panics when the RefCell is already mutably borrowed
BorrowMutPanics == bBorrowed

\* new_resolving_promise called from the engine thread while no continuation
\* runs: borrow, insert, release
BorrowStart ==
    /\ enginePc = "idle"
    /\ bPc = "idle"
    /\ bInserted < MaxBorrowOps
    /\ IF BorrowMutPanics
       THEN /\ enginePc' = Panicked(EngineThread)
            /\ UNCHANGED <<RESOLVING_PROMISES, bBorrowed, bInserted>>
       ELSE /\ \E id \in FreeIds(RESOLVING_PROMISES) :
                 RESOLVING_PROMISES' =
                     map_insert(RESOLVING_PROMISES, id, PromiseRef(bInserted + 1))
            /\ bBorrowed' = borrow_after_insert
            /\ bInserted' = bInserted + 1
            /\ UNCHANGED enginePc
    /\ UNCHANGED <<bPc, bCur, bNested, notBorrowVars>>

\* the continuation of the call that holds id starts: borrow, remove, release
BorrowRemove(id) ==
    /\ enginePc = "idle"
    /\ bPc = "idle"
    /\ RESOLVING_PROMISES[id] # NoEntry
    /\ IF BorrowMutPanics
       THEN /\ enginePc' = Panicked(EngineThread)
            /\ UNCHANGED <<RESOLVING_PROMISES, bBorrowed, bPc, bCur, bNested>>
       ELSE /\ RESOLVING_PROMISES' = map_remove(RESOLVING_PROMISES, id)
            /\ bCur' = [id |-> id, elem |-> RESOLVING_PROMISES[id]]
            /\ bBorrowed' = borrow_after_remove
            /\ bPc' = "removed"
            /\ bNested' = {}
            /\ UNCHANGED enginePc
    /\ UNCHANGED <<bInserted, notBorrowVars>>

\* mapper(q_ctx, ok_res) runs; with reenter it calls new_resolving_promise,
\* which borrows the RefCell and inserts
BorrowMapper(reenter) ==
    /\ enginePc = "idle"
    /\ bPc = "removed"
    /\ reenter => bInserted < MaxBorrowOps
    /\ IF reenter /\ BorrowMutPanics
       THEN /\ enginePc' = Panicked(EngineThread)
            /\ UNCHANGED <<RESOLVING_PROMISES, bBorrowed, bPc, bNested, bInserted>>
       ELSE IF reenter
       THEN /\ \E id \in FreeIds(RESOLVING_PROMISES) :
                 /\ RESOLVING_PROMISES' =
                        map_insert(RESOLVING_PROMISES, id, PromiseRef(bInserted + 1))
                 /\ bNested' = {<<id, PromiseRef(bInserted + 1)>>}
            /\ bBorrowed' = (bBorrowed \/ borrow_after_insert)
            /\ bInserted' = bInserted + 1
            /\ bPc' = "mapped"
            /\ UNCHANGED enginePc
       ELSE /\ bPc' = "mapped"
            /\ UNCHANGED <<RESOLVING_PROMISES, bBorrowed, bNested, bInserted, enginePc>>
    /\ UNCHANGED <<bCur, notBorrowVars>>

\* resolve_q / reject_q, then the closure returns and drops what it holds
BorrowSettle ==
    /\ enginePc = "idle"
    /\ bPc = "mapped"
    /\ bPc' = "idle"
    /\ bBorrowed' = FALSE
    /\ UNCHANGED <<RESOLVING_PROMISES, enginePc, bCur, bNested, bInserted, notBorrowVars>>

BorrowNext ==
    \/ BorrowStart
    \/ \E id \in Ids : BorrowRemove(id)
    \/ \E reenter \in BOOLEAN : BorrowMapper(reenter)
    \/ BorrowSettle

BorrowSpec == Init /\ [][BorrowNext]_vars

\* C21: the continuation takes its entry out of RESOLVING_PROMISES before the
\* mapper runs and holds no borrow of the map while the mapper, new_error or
\* resolve / reject runs; so a mapper that calls new_resolving_promise itself
\* inserts without a borrow panic, and the entry it inserted is in the map
\* when the continuation finishes.
C21_NoBorrowAcrossMapper ==
    /\ [](/\ enginePc # "panicked"
          /\ bPc \in {"removed", "mapped"}
                => /\ ~bBorrowed
                   /\ \A i \in Ids : RESOLVING_PROMISES[i] # bCur.elem)
    /\ [][ (bPc = "mapped" /\ bPc' = "idle")
                => \A e \in bNested : RESOLVING_PROMISES'[e[1]] = e[2]
         ]_vars

\* a continuation has finished whose mapper made a call of its own, which got
\* the id the continuation had just given back, while another entry waits
C21_Witness ==
    /\ bPc = "idle"
    /\ \E e \in bNested : e[1] = bCur.id /\ RESOLVING_PROMISES[e[1]] = e[2]
    /\ \E i \in Ids : i # bCur.id /\ RESOLVING_PROMISES[i] # NoEntry

---------------------------------------------------------------------------
\* The bridge with realms that come back: after a realm was dropped, a new one
\* is made under the same id.

\* a new realm is made under the id c of a dropped one, by a task of the event
\* loop; the calls made in the dropped realm now name a realm that is not theirs
CreateContext(c) ==
    /\ enginePc = "idle"
    /\ c \in Contexts \ contexts
    /\ contexts' = contexts \cup {c}
    /\ stale' = stale \cup {op \in 1..started : helperTask[op].ctx_id = c}
    /\ UNCHANGED <<regVars, handleVars, dateVars, borrowVars, threadVars, RESOLVING_PROMISES,
                   enginePc, frame, started, helperTask, eventLoop, promise, obs>>

RecreateNext ==
    \/ Next
    \/ \E c \in Contexts : CreateContext(c)

RecreateSpec == Init /\ [][RecreateNext]_vars

\* C22: a promise is settled only against the realm it was made in: when that
\* realm was dropped and another was made under the same id before the
\* continuation runs, the continuation is dropped like one without a realm:
\* the mapper is not called against the new realm, and neither resolve nor
\* reject of the old realm's promise is called.
C22_NotSettledAgainstNewContext ==
    [][ \A op \in Ops :
            (ContinuationRan(op) /\ op \in stale)
                => /\ obs'[op].outcome = "dropped"
                   /\ obs'[op].mapperCalls = obs[op].mapperCalls
                   /\ obs'[op].resolveCalls = obs[op].resolveCalls
                   /\ obs'[op].rejectCalls = obs[op].rejectCalls
                   /\ promise'[op] = promise[op]
      ]_vars

---------------------------------------------------------------------------
\* RESOLVING_PROMISES is declared in thread_local!: every thread has its own
\* instance. The test thread never calls new_resolving_promise; it looks at
\* its instance while the engine thread inserts into its own and removes from
\* it.

TestThread == "test"

\* one map for all threads
static_with(thread) == RESOLVING_PROMISES

\* RESOLVING_PROMISES.with(..) on a thread: the instance of that thread
thread_local_with(thread) ==
    IF thread = EngineThread THEN RESOLVING_PROMISES ELSE testThreadMap

\* assert!(RESOLVING_PROMISES.with(|rc| { (*rc.borrow()).is_empty() })) on the
\* test thread
TestIsEmpty ==
    /\ tObs' = [made |-> TRUE,
                empty |-> is_empty(thread_local_with(TestThread)),
                engineEmpty |-> is_empty(thread_local_with(EngineThread))]
    /\ UNCHANGED <<regVars, handleVars, dateVars, borrowVars, stale, testThreadMap,
                   contexts, RESOLVING_PROMISES, enginePc, frame, started,
                   helperTask, eventLoop, promise, obs>>

ThreadLocalNext ==
    \/ RegInsert
    \/ \E id \in Ids : RegRemove(id)
    \/ TestIsEmpty

ThreadLocalSpec == Init /\ [][ThreadLocalNext]_vars

\* C23: RESOLVING_PROMISES is per thread: what the engine thread inserts or
\* removes never shows in the instance of another thread, so the test thread,
\* which never calls new_resolving_promise, sees an empty map in every
\* reachable state, also while entries are in flight or leaked on the engine
\* thread.
C23_RegistryIsPerThread ==
    /\ is_empty(thread_local_with(TestThread))
    /\ tObs.empty

\* the test thread looked while the engine thread's map held an entry, which
\* is still there, and found its own map empty
C23_Witness ==
    /\ tObs.made
    /\ tObs.empty
    /\ ~tObs.engineEmpty
    /\ regLast.call = "insert"
    /\ ~is_empty(RESOLVING_PROMISES)

====
